---- MODULE Spec2Model ----
(***************************************************************************)
(* Membership reconciliation of synapse-pangea-chat: the on_new_event      *)
(* callback of AutoAcceptInviteIfKnocked, the background processes it      *)
(* starts (_retry_make_join, _auto_invite_knocker,                         *)
(* _ensure_inviter_on_leave), the knock history resolver and               *)
(* get_inviter_user, over one room; and the HTTP endpoints                 *)
(* request_auto_join, delete_room, the sliding-window rate limiter and     *)
(* the pagination of get_public_courses.                                   *)
(***************************************************************************)
EXTENDS Integers, Sequences, FiniteSets, TLC

\* ------------------------------------------------------------------------
\* Bounds of the model
\* ------------------------------------------------------------------------
\* external (client / federation) membership events delivered in one run
MaxExternalEvents == 2
\* calls of get_inviter_user made against one unchanged room state
MaxInviterCalls == 2
\* join attempts after which an execution of the retry loop is no longer
\* followed (only reached when the loop fails to stop by itself)
MaxObservedAttempts == 7
\* calls of _has_user_previously_knocked made against one unchanged room state
MaxKnockCalls == 1
\* requests answered by one HTTP endpoint in one run
MaxRequests == 1
\* Calls of the user_activity rate limiter in one behaviour.
MaxRateCalls == 13
\* The clock stops advancing here (seconds).
MaxTime == 121
\* Public course rooms have ids 1..MaxRoomId, ordered by id.
MaxRoomId == 11

\* ------------------------------------------------------------------------
\* Users, memberships, JSON values
\* ------------------------------------------------------------------------
LocalUsers == {"alice", "bob", "carol"}
RemoteUsers == {"remo"}
Users == LocalUsers \cup RemoteUsers
NoUser == "None"

\* api.is_mine(user_id)
is_mine(u) == u \in LocalUsers

NoMembership == "none"
Memberships == {"invite", "join", "knock", "leave", "ban"}

\* A JSON value found in event content: t is its shape, n its number
\* (0 when the shape carries none).
JInt(n) == [t |-> "int", n |-> n]
JNumStr(n) == [t |-> "numstr", n |-> n]
JAbsent == [t |-> "absent", n |-> 0]
JNull == [t |-> "null", n |-> 0]
JStr == [t |-> "str", n |-> 0]
JList == [t |-> "list", n |-> 0]
JDict == [t |-> "dict", n |-> 0]

\* Python int(v): a number or a numeric string converts, a non-numeric
\* string raises ValueError, None / list / dict raise TypeError.
PyInt(v) ==
  CASE v.t = "int" -> [exc |-> "ok", n |-> v.n]
    [] v.t = "numstr" -> [exc |-> "ok", n |-> v.n]
    [] v.t = "str" -> [exc |-> "ValueError", n |-> 0]
    [] OTHER -> [exc |-> "TypeError", n |-> 0]

DEFAULT_INVITE_POWER_LEVEL == 50
DEFAULT_USERS_DEFAULT_POWER_LEVEL == 0

\* dict.get(key, default) followed by int(...) inside try / except ValueError
IntOrDefault(v, default) ==
  IF v.t = "absent" THEN [exc |-> "ok", n |-> default]
  ELSE LET r == PyInt(v) IN
       IF r.exc = "ValueError" THEN [exc |-> "ok", n |-> default] ELSE r

\* ------------------------------------------------------------------------
\* State
\* ------------------------------------------------------------------------
VARIABLES
  power_levels,   \* the room's m.room.power_levels state event
  join_rule,      \* content.join_rule of m.room.join_rules, "absent" if none
  member_state,   \* per user: the current m.room.member state event
  join_task,      \* per invitee: on_new_event's invite branch (_retry_make_join, then the DM tag)
  invite_task,    \* per knocker: the _auto_invite_knocker background process
  leave_task,     \* the _ensure_inviter_on_leave background process
  issued,         \* state events the module asked the homeserver to send
  m_direct,       \* per user: the m.direct account data, counterparty -> the value stored for it
  dm_tasks,       \* the runs of _mark_room_as_direct_message that take their two awaits separately
  ext_events,     \* number of external membership events delivered so far
  inviter_calls,  \* results of get_inviter_user calls made against the unchanged room
  knock_calls,    \* results of _has_user_previously_knocked calls made against the unchanged room
  http_responses, \* the requests the HTTP endpoints have answered, with their status
  room_purged,    \* purge_room was called for the room
  request_log,    \* user_activity.is_rate_limited: per user, the recorded request times
  current_time,   \* time.time(), in seconds
  rate_calls,     \* per user, the calls of is_rate_limited so far: time and answer
  course_rooms,   \* the ids of the public course rooms
  course_pages    \* the calls of get_public_courses made so far, with their responses

\* the state of the membership module and the state of the endpoints
module_vars == <<power_levels, join_rule, member_state, join_task, invite_task,
                 leave_task, issued, m_direct, dm_tasks, ext_events, inviter_calls,
                 knock_calls>>

endpoint_vars == <<http_responses, room_purged, request_log, current_time,
                   rate_calls, course_rooms, course_pages>>

vars == <<module_vars, endpoint_vars>>

\* ------------------------------------------------------------------------
\* Room state as the module reads it
\* ------------------------------------------------------------------------
\* kind: "none" (no power-levels event), "empty" (content {}), "content"
NoPowerLevels ==
  [kind |-> "none", invite |-> JAbsent, users_default |-> JAbsent,
   users_is_dict |-> FALSE, users |-> [u \in Users |-> JAbsent]]

EmptyPowerLevels == [NoPowerLevels EXCEPT !.kind = "empty"]

\* A member event: content.membership, sender, content.is_direct and the
\* membership of the event named by unsigned.replaces_state ("none": no
\* replaces_state).
NoMemberEvent ==
  [membership |-> NoMembership, sender |-> NoUser, is_direct |-> FALSE,
   replaces |-> NoMembership]

MemberEvent(m, sender, direct, old) ==
  [membership |-> m, sender |-> sender, is_direct |-> direct,
   replaces |-> old.membership]

\* local_joined_members of get_inviter_user
LocalJoinedMembersAnyServer(ms) ==
  {u \in Users : ms[u].membership = "join"}

LocalJoinedMembers(ms) ==
  {u \in Users : ms[u].membership = "join" /\ is_mine(u)}

\* All orders in which a Python set of the given members can be iterated.
IterationOrders(S) ==
  {o \in [1..Cardinality(S) -> S] : \A i, j \in 1..Cardinality(S) : i # j => o[i] # o[j]}

\* power_level of one member in the loop of get_inviter_user
MemberPowerMissingIsZero(users_power, users_default, u) ==
  IF users_power[u].t # "absent"
    THEN LET r == PyInt(users_power[u]) IN IF r.exc = "ok" THEN r.n ELSE users_default
    ELSE 0

MemberPower(users_power, users_default, u) ==
  IF users_power[u].t # "absent"
    THEN LET r == PyInt(users_power[u]) IN IF r.exc = "ok" THEN r.n ELSE users_default
    ELSE users_default

\* The loop over local_joined_members: best is <<user, power>>, <<NoUser, 0>>
\* while highest_local_power is None.
RECURSIVE HighestLoop(_, _, _, _, _)
HighestLoop(order, i, users_power, users_default, best) ==
  IF i > Len(order) THEN best
  ELSE LET p == MemberPower(users_power, users_default, order[i]) IN
       HighestLoop(order, i + 1, users_power, users_default,
                   IF best[1] = NoUser \/ p > best[2] THEN <<order[i], p>> ELSE best)

\* The users map read by get_inviter_user: {} unless it is a dict.
UsersPowerLevel(pl) ==
  IF pl.users_is_dict THEN pl.users ELSE [u \in Users |-> JAbsent]

\* The final check of get_inviter_user on the selected candidate.
InviterIfSufficientNoCheck(best, invite_power) == best[1]

InviterIfSufficient(best, invite_power) ==
  IF best[2] < invite_power THEN NoUser ELSE best[1]

\* get_inviter_user(api, room_id) with the set iterated in the given order:
\* a user, NoUser (None), or the name of the exception that escapes.
get_inviter_user(pl, ms, order) ==
  IF pl.kind # "content" THEN NoUser
  ELSE
    LET invite_power == IntOrDefault(pl.invite, DEFAULT_INVITE_POWER_LEVEL)
        users_default == IntOrDefault(pl.users_default, DEFAULT_USERS_DEFAULT_POWER_LEVEL)
    IN  IF invite_power.exc # "ok" THEN invite_power.exc
        ELSE IF users_default.exc # "ok" THEN users_default.exc
        ELSE IF LocalJoinedMembers(ms) = {} THEN NoUser
        ELSE InviterIfSufficient(
               HighestLoop(order, 1, UsersPowerLevel(pl), users_default.n, <<NoUser, 0>>),
               invite_power.n)

\* ------------------------------------------------------------------------
\* Background processes: their local variables and program counters
\* ------------------------------------------------------------------------
\* on_new_event's invite branch for one invitee: the locals of
\* _retry_make_join (sleep, retries, join_event), the number of
\* update_room_membership calls made, the delays slept before them, the
\* invite's is_direct and sender for the DM tag that follows, and whether
\* on_new_event ended by raising.
IdleJoinTask ==
  [pc |-> "idle", sleep |-> 0, retries |-> 0, join_event |-> FALSE,
   attempts |-> 0, delays |-> <<>>, is_direct |-> FALSE, dm_user |-> NoUser,
   raised |-> FALSE]

\* _auto_invite_knocker for one knocker: failed records that the promotion
\* or the invite was refused, reads_failed that a read of the knock history
\* resolver failed when its invite was handled.
IdleInviteTask ==
  [pc |-> "idle", inviter |-> NoUser, failed |-> FALSE, reads_failed |-> FALSE]

\* _ensure_inviter_on_leave: resolved records that get_inviter_user ran.
IdleLeaveTask ==
  [pc |-> "idle", inviter |-> NoUser, resolved |-> FALSE, raised |-> FALSE]

\* ------------------------------------------------------------------------
\* The m.direct account data
\* ------------------------------------------------------------------------
\* The room of the membership engine, and a second room a user can be
\* invited to directly.
TheRoom == "!room"

RoomIds == {TheRoom, "!other"}

\* A value stored for one counterparty: no key at all, a tuple or a list of
\* room ids, or a value that is not a collection of room ids (a string).
NotInMap == [t |-> "absent", rooms |-> <<>>]

DmTuple(rooms) == [t |-> "tuple", rooms |-> rooms]

DmList(rooms) == [t |-> "list", rooms |-> rooms]

DmNotAList == [t |-> "str", rooms |-> <<>>]

\* get_global returned None, or an empty map: no counterparty has a key.
EmptyDmMap == [c \in Users |-> NotInMap]

\* The lines of _mark_room_as_direct_message between its two awaits, over
\* the map get_global returned: put says whether put_global is reached, and
\* dm_map is the map handed to it.
mark_room_as_direct_message_mangling(dm_map, dm_user_id, room_id) ==
  [put |-> TRUE,
   dm_map |-> [dm_map EXCEPT ![dm_user_id] = DmTuple(Append(@.rooms, room_id))]]

mark_room_as_direct_message(dm_map, dm_user_id, room_id) ==
  IF dm_map[dm_user_id] = NotInMap
    THEN [put |-> TRUE,
          dm_map |-> [dm_map EXCEPT ![dm_user_id] = DmTuple(<<room_id>>)]]
    ELSE LET dm_rooms_for_user == dm_map[dm_user_id] IN
         IF dm_rooms_for_user.t \notin {"tuple", "list"}
           THEN [put |-> FALSE, dm_map |-> dm_map]
           ELSE [put |-> TRUE,
                 dm_map |-> [dm_map EXCEPT ![dm_user_id] =
                               DmTuple(dm_rooms_for_user.rooms \o <<room_id>>)]]

\* account_data_manager.put_global(user_id, "m.direct", dm_map): the stored
\* value is replaced by the map handed in.
put_global_merging(stored, dm_map) ==
  [c \in Users |->
     IF Len(stored[c].rooms) > Len(dm_map[c].rooms) THEN stored[c] ELSE dm_map[c]]

put_global(stored, dm_map) == dm_map

\* One run of _mark_room_as_direct_message(user_id, dm_user_id, room_id):
\* seen is the map get_global returned, dm_map the map handed to put_global.
MaxDmTasks == 2

DmTaskIds == 1..MaxDmTasks

IdleDmTask ==
  [pc |-> "idle", user_id |-> NoUser, dm_user_id |-> NoUser, room_id |-> TheRoom,
   seen |-> EmptyDmMap, dm_map |-> EmptyDmMap]

\* No request was made yet: the module-level request log is empty.
NoRequestYet ==
  /\ http_responses = <<>>
  /\ room_purged = FALSE
  /\ request_log = [u \in Users |-> <<>>]
  /\ current_time = 0
  /\ rate_calls = [u \in Users |-> <<>>]
  /\ course_pages = <<>>

EndpointsIdle ==
  /\ NoRequestYet
  /\ course_rooms = {}

\* No callback of the module is running.
ModuleIdle ==
  /\ join_task = [u \in Users |-> IdleJoinTask]
  /\ invite_task = [u \in Users |-> IdleInviteTask]
  /\ leave_task = IdleLeaveTask
  /\ issued = {}
  /\ m_direct = [u \in Users |-> EmptyDmMap]
  /\ dm_tasks = [k \in DmTaskIds |-> IdleDmTask]
  /\ ext_events = 0
  /\ inviter_calls = <<>>
  /\ knock_calls = <<>>

Quiescent ==
  /\ EndpointsIdle
  /\ ModuleIdle

\* ------------------------------------------------------------------------
\* get_inviter_user over room states
\* ------------------------------------------------------------------------
WellFormedPowers == {JAbsent, JInt(0), JInt(50)}

RoomPowerLevels ==
  {NoPowerLevels, EmptyPowerLevels} \cup
  [kind : {"content"},
   invite : {JAbsent, JInt(0), JInt(50), JInt(100)},
   users_default : WellFormedPowers,
   users_is_dict : {TRUE},
   users : {f \in [Users -> WellFormedPowers \cup {JInt(100)}] :
              \A u \in LocalUsers : f[u] \in WellFormedPowers}]

JoinedOrLeft(u, joined) ==
  IF joined THEN MemberEvent("join", u, FALSE, NoMemberEvent)
  ELSE MemberEvent("leave", u, FALSE, MemberEvent("join", u, FALSE, NoMemberEvent))

InitInviter ==
  /\ power_levels \in RoomPowerLevels
  /\ join_rule = "knock"
  /\ \E J \in SUBSET Users : member_state = [u \in Users |-> JoinedOrLeft(u, u \in J)]
  /\ Quiescent

\* One call of get_inviter_user; the room is not changed.
CallGetInviter ==
  /\ Len(inviter_calls) < MaxInviterCalls
  /\ \E order \in IterationOrders(LocalJoinedMembers(member_state)) :
       inviter_calls' = Append(inviter_calls,
                               get_inviter_user(power_levels, member_state, order))
  /\ UNCHANGED <<power_levels, join_rule, member_state, join_task, invite_task,
                 leave_task, issued, m_direct, ext_events, knock_calls,
                 dm_tasks, endpoint_vars>>

NextInviter == CallGetInviter

SpecInviter == InitInviter /\ [][NextInviter]_vars

\* --- claims about get_inviter_user ---
\* The power the room gives a user: its entry in users, else users_default
\* (0 when the room states none); the power inviting needs (50 when the
\* room states none).
StatedUsersDefault ==
  IF power_levels.users_default.t = "int" THEN power_levels.users_default.n ELSE 0

StatedInvitePower ==
  IF power_levels.invite.t = "int" THEN power_levels.invite.n ELSE 50

EffectivePower(u) ==
  IF power_levels.users_is_dict /\ power_levels.users[u].t = "int"
    THEN power_levels.users[u].n
    ELSE StatedUsersDefault

LocalJoined == {u \in LocalUsers : member_state[u].membership = "join"}

\* C7: in every room state where some local joined member has effective
\* power >= the invite power, every call of get_inviter_user returns a
\* user, never None.
C7_SufficientMemberFound ==
  \A i \in 1..Len(inviter_calls) :
    (\E u \in LocalJoined : EffectivePower(u) >= StatedInvitePower)
    => inviter_calls[i] \in Users

C7_Witness ==
  /\ Len(inviter_calls) >= 1
  /\ power_levels.kind = "content"
  /\ power_levels.users["bob"] = JAbsent
  /\ "bob" \in LocalJoined
  /\ EffectivePower("bob") >= StatedInvitePower
  /\ \A u \in LocalJoined \ {"bob"} : EffectivePower(u) < StatedInvitePower
  /\ inviter_calls[1] = "bob"

C9_Deterministic ==
  Len(inviter_calls) = 2 => inviter_calls[1] = inviter_calls[2]

\* --- get_inviter_user over malformed power-level content ---
\* The shapes a power-level value can have in event content: missing, null,
\* a non-numeric string, a list, a mapping, or a number.
PowerShapes == {JAbsent, JNull, JStr, JList, JDict, JInt(0), JInt(50), JInt(100)}

\* Alice and Bob are joined; invite, users_default and their entries in
\* users have any shape, and users may be something else than a mapping.
InitMalformedPowers ==
  /\ \E invite \in PowerShapes, users_default \in PowerShapes,
        users_is_dict \in BOOLEAN, a \in PowerShapes, b \in PowerShapes :
       power_levels =
         [kind |-> "content", invite |-> invite, users_default |-> users_default,
          users_is_dict |-> users_is_dict,
          users |-> [u \in Users |-> CASE u = "alice" -> a [] u = "bob" -> b
                                        [] OTHER -> JAbsent]]
  /\ join_rule = "knock"
  /\ member_state = [u \in Users |->
       IF u \in {"alice", "bob"} THEN JoinedOrLeft(u, TRUE) ELSE NoMemberEvent]
  /\ Quiescent

SpecMalformedPowers == InitMalformedPowers /\ [][NextInviter]_vars

\* C20: for every shape of power-level content get_inviter_user raises
\* nothing: a malformed invite counts as 50, a malformed users_default as
\* 0, a malformed users entry as users_default, and the result is chosen
\* with these values.
C20_MalformedPowerLevelsTolerated ==
  \A i \in 1..Len(inviter_calls) :
    /\ inviter_calls[i] \in Users \cup {NoUser}
    /\ inviter_calls[i] \in Users =>
         /\ inviter_calls[i] \in LocalJoined
         /\ \A u \in LocalJoined : EffectivePower(u) <= EffectivePower(inviter_calls[i])
         /\ EffectivePower(inviter_calls[i]) >= StatedInvitePower
    /\ inviter_calls[i] = NoUser =>
         \A u \in LocalJoined : EffectivePower(u) < StatedInvitePower

\* ------------------------------------------------------------------------
\* Knock history resolver
\* ------------------------------------------------------------------------
\* What an external read can do: get_state_events_in_room raises or
\* answers; get_event raises, answers None or answers the event.
StateQueryOutcomes == {"ok", "raise"}
LookupOutcomes == {"ok", "none", "raise"}

\* The check made on the event fetched through replaces_state.
ReplacedWasKnockOrLeave(ev, lookup) ==
  lookup = "ok" /\ ev.replaces \in {"knock", "leave"}

ReplacedWasLeave(ev, lookup) ==
  lookup = "ok" /\ ev.replaces = "leave"

ReplacedWasKnock(ev, lookup) ==
  lookup = "ok" /\ ev.replaces = "knock"

\* The resolver if a failed read counted as a knock.
has_user_previously_knocked_fail_open(ev, state_query, lookup) ==
  IF state_query = "raise" THEN TRUE
  ELSE IF ev.membership = NoMembership THEN FALSE
  ELSE IF ev.membership = "knock" THEN TRUE
  ELSE IF ev.membership = "invite" /\ ev.replaces # NoMembership
    THEN lookup = "raise" \/ ReplacedWasKnock(ev, lookup)
  ELSE FALSE

\* _has_user_previously_knocked(inviter, invitee, room_id): ev is the
\* invitee's current member event (NoMemberEvent when the state query
\* returns nothing).
has_user_previously_knocked(ev, state_query, lookup) ==
  IF state_query = "raise" THEN FALSE
  ELSE IF ev.membership = NoMembership THEN FALSE
  ELSE IF ev.membership = "knock" THEN TRUE
  ELSE IF ev.membership = "invite" /\ ev.replaces # NoMembership /\ lookup # "raise"
    THEN ReplacedWasKnock(ev, lookup)
  ELSE FALSE

\* Membership transitions the room's authorization rules can admit.
ValidTransition(old, new) ==
  CASE new = "invite" -> old \in {NoMembership, "leave", "knock", "invite"}
    [] new = "join" -> old \in {NoMembership, "invite", "join", "leave", "knock"}
    [] new = "knock" -> old \in {NoMembership, "leave", "knock"}
    [] new = "leave" -> old \in {"join", "invite", "knock", "ban"}
    [] new = "ban" -> old \in Memberships \cup {NoMembership}
    [] OTHER -> FALSE

\* Current member events a user can have, with what they replaced.
MemberEvents(u) ==
  {NoMemberEvent} \cup
  {e \in [membership : Memberships, sender : {u}, is_direct : {FALSE},
          replaces : Memberships \cup {NoMembership}] :
     ValidTransition(e.replaces, e.membership)}

InitKnock ==
  /\ power_levels = NoPowerLevels
  /\ join_rule = "knock"
  /\ \E b \in MemberEvents("bob"), c \in MemberEvents("carol") :
       member_state = [u \in Users |->
         CASE u = "alice" -> MemberEvent("join", "alice", FALSE, NoMemberEvent)
           [] u = "bob" -> b
           [] u = "carol" -> c
           [] OTHER -> NoMemberEvent]
  /\ Quiescent

\* One call of _has_user_previously_knocked for an invitee; the room is not
\* changed.
CallHasPreviouslyKnocked ==
  /\ Len(knock_calls) < MaxKnockCalls
  /\ \E u \in LocalUsers, sq \in StateQueryOutcomes, lk \in LookupOutcomes :
       knock_calls' = Append(knock_calls,
         [invitee |-> u, state_query |-> sq, lookup |-> lk,
          result |-> has_user_previously_knocked(member_state[u], sq, lk)])
  /\ UNCHANGED <<power_levels, join_rule, member_state, join_task, invite_task,
                 leave_task, issued, m_direct, ext_events, inviter_calls,
                 dm_tasks, endpoint_vars>>

NextKnock == CallHasPreviouslyKnocked

SpecKnock == InitKnock /\ [][NextKnock]_vars

\* C6: when the reads succeed, the resolver answers true for an invite
\* that supersedes a knock and for a current knock, and false for a user
\* whose only member event is a join and for a user with no member event.
C6_KnockChainResolution ==
  \A i \in 1..Len(knock_calls) :
    LET c == knock_calls[i]
        ev == member_state[c.invitee]
    IN  (c.state_query = "ok" /\ c.lookup = "ok") =>
          /\ (ev.membership = "invite" /\ ev.replaces = "knock") => c.result
          /\ ev.membership = "knock" => c.result
          /\ (ev.membership = "join" /\ ev.replaces = NoMembership) => ~c.result
          /\ ev = NoMemberEvent => ~c.result

C6_Witness ==
  /\ Len(knock_calls) = 1
  /\ knock_calls[1].invitee = "carol"
  /\ knock_calls[1].state_query = "ok" /\ knock_calls[1].lookup = "ok"
  /\ member_state["carol"].membership = "invite"
  /\ member_state["carol"].replaces = "knock"
  /\ knock_calls[1].result

\* ------------------------------------------------------------------------
\* The room as the homeserver sees it
\* ------------------------------------------------------------------------
InvitePowerOf(pl) == IntOrDefault(pl.invite, DEFAULT_INVITE_POWER_LEVEL).n

PowerOf(pl, u) ==
  MemberPower(UsersPowerLevel(pl),
              IntOrDefault(pl.users_default, DEFAULT_USERS_DEFAULT_POWER_LEVEL).n, u)

\* The homeserver admits an invite from a joined sender with invite power
\* to a target that is neither joined nor banned.
InviteAdmitted(pl, ms, sender, target) ==
  /\ sender \in Users
  /\ sender # target
  /\ ms[sender].membership = "join"
  /\ PowerOf(pl, sender) >= InvitePowerOf(pl)
  /\ ms[target].membership \in {NoMembership, "leave", "knock", "invite"}

\* It admits a join of a user who holds an invite (or is joined already).
JoinAdmitted(ms, u) == ms[u].membership \in {"invite", "join"}

\* ------------------------------------------------------------------------
\* on_new_event
\* ------------------------------------------------------------------------
Tasks == [join |-> join_task, invite |-> invite_task, leave |-> leave_task]

StartJoinTask(ev) ==
  [IdleJoinTask EXCEPT !.pc = "attempt", !.is_direct = ev.is_direct,
                       !.dm_user = ev.sender]

on_new_event_inverted_is_mine(ms, u, sq, lk, tasks) ==
  LET ev == ms[u] IN
  IF ev.membership = "invite" /\ ~is_mine(u)
    THEN IF has_user_previously_knocked(ev, sq, lk)
           THEN [tasks EXCEPT !.join[u] = StartJoinTask(ev)]
           ELSE tasks
  ELSE IF ev.membership = "knock"
    THEN [tasks EXCEPT !.invite[u] = [IdleInviteTask EXCEPT !.pc = "resolve"]]
  ELSE IF ev.membership \in {"leave", "ban"}
    THEN [tasks EXCEPT !.leave = [IdleLeaveTask EXCEPT !.pc = "join_rules"]]
  ELSE tasks

on_new_event_join_knocks(ms, u, sq, lk, tasks) ==
  LET ev == ms[u] IN
  IF ev.membership = "invite" /\ is_mine(u)
    THEN IF has_user_previously_knocked(ev, sq, lk)
           THEN [tasks EXCEPT !.join[u] = StartJoinTask(ev)]
           ELSE tasks
  ELSE IF ev.membership \in {"knock", "join"}
    THEN [tasks EXCEPT !.invite[u] = [IdleInviteTask EXCEPT !.pc = "resolve"]]
  ELSE IF ev.membership \in {"leave", "ban"}
    THEN [tasks EXCEPT !.leave = [IdleLeaveTask EXCEPT !.pc = "join_rules"]]
  ELSE tasks

\* on_new_event(event, _) for the member state event that just became ms[u]
\* (the test of the event's type is IsMemberStateEvent, below):
\* the background processes afterwards.  sq and lk are what the reads of
\* the knock history resolver do.
on_new_event(ms, u, sq, lk, tasks) ==
  LET ev == ms[u] IN
  IF ev.membership = "invite" /\ is_mine(u)
    THEN IF has_user_previously_knocked(ev, sq, lk)
           THEN [tasks EXCEPT !.join[u] = StartJoinTask(ev)]
           ELSE tasks
  ELSE IF ev.membership = "knock"
    THEN [tasks EXCEPT !.invite[u] = [IdleInviteTask EXCEPT !.pc = "resolve"]]
  ELSE IF ev.membership \in {"leave", "ban"}
    THEN [tasks EXCEPT !.leave = [IdleLeaveTask EXCEPT !.pc = "join_rules"]]
  ELSE tasks

\* The first test of on_new_event: anything but a state event of type
\* m.room.member returns at once.
IsStateEventOfAnyType(event_type, is_state) == is_state

IsMemberStateEvent(event_type, is_state) ==
  event_type = "m.room.member" /\ is_state

\* on_new_event for an event of any type: for a member state event ms[u] is
\* that event; an event of another type, or one without a state key, leaves
\* the room's member events as they are.
on_any_event(event_type, is_state, ms, u, sq, lk, tasks) ==
  IF IsMemberStateEvent(event_type, is_state)
    THEN on_new_event(ms, u, sq, lk, tasks)
    ELSE tasks

\* The reads the resolver makes for this event, in the order it makes
\* them: the lookup happens only for an invite that names a replaced event.
ReadsMade(ev, sq, lk) ==
  /\ (~(ev.membership = "invite" /\ is_mine(ev.target)) => sq = "ok")
  /\ (~(ev.membership = "invite" /\ is_mine(ev.target) /\ sq = "ok"
        /\ ev.replaces # NoMembership) => lk = "ok")

\* A member event for u is persisted and on_new_event runs for it.
Deliver(u, ev, sq, lk) ==
  LET ms == [member_state EXCEPT ![u] = ev]
      t == on_any_event("m.room.member", TRUE, ms, u, sq, lk, Tasks)
  IN  /\ ReadsMade([membership |-> ev.membership, target |-> u, replaces |-> ev.replaces], sq, lk)
      /\ member_state' = ms
      /\ join_task' = t.join
      /\ invite_task' = t.invite
      /\ leave_task' = t.leave
      /\ knock_calls' =
           IF ev.membership = "invite" /\ is_mine(u)
             THEN <<[invitee |-> u, state_query |-> sq, lookup |-> lk,
                     result |-> has_user_previously_knocked(ev, sq, lk)]>>
             ELSE knock_calls

TaskFree(u) ==
  /\ join_task[u].pc \in {"idle", "done"}
  /\ invite_task[u].pc \in {"idle", "done"}

\* ------------------------------------------------------------------------
\* External membership events (clients, federation)
\* ------------------------------------------------------------------------
ExtKnock(u) ==
  /\ ext_events < MaxExternalEvents
  /\ join_rule \in {"knock", "knock_restricted"}
  /\ ValidTransition(member_state[u].membership, "knock")
  /\ TaskFree(u)
  /\ Deliver(u, MemberEvent("knock", u, FALSE, member_state[u]), "ok", "ok")
  /\ ext_events' = ext_events + 1
  /\ UNCHANGED <<power_levels, join_rule, issued, m_direct, inviter_calls,
                 dm_tasks, endpoint_vars>>

ExtInvite(s, u, direct) ==
  /\ ext_events < MaxExternalEvents
  /\ InviteAdmitted(power_levels, member_state, s, u)
  /\ \E sq \in StateQueryOutcomes, lk \in LookupOutcomes :
       Deliver(u, MemberEvent("invite", s, direct, member_state[u]), sq, lk)
  /\ ext_events' = ext_events + 1
  /\ UNCHANGED <<power_levels, join_rule, issued, m_direct, inviter_calls,
                 dm_tasks, endpoint_vars>>

ExtLeaveOrBan(u, m) ==
  /\ ext_events < MaxExternalEvents
  /\ m \in {"leave", "ban"}
  /\ member_state[u].membership \in {"join", "invite", "knock"}
  /\ leave_task.pc \in {"idle", "done"}
  /\ Deliver(u, MemberEvent(m, u, FALSE, member_state[u]), "ok", "ok")
  /\ ext_events' = ext_events + 1
  /\ UNCHANGED <<power_levels, join_rule, issued, m_direct, inviter_calls,
                 dm_tasks, endpoint_vars>>

ExtJoin(u) ==
  /\ ext_events < MaxExternalEvents
  /\ member_state[u].membership = "invite"
  /\ Deliver(u, MemberEvent("join", u, FALSE, member_state[u]), "ok", "ok")
  /\ ext_events' = ext_events + 1
  /\ UNCHANGED <<power_levels, join_rule, issued, m_direct, inviter_calls,
                 dm_tasks, endpoint_vars>>

\* An event that is not a member state event: a message, another state
\* event, or an m.room.member event without a state key.  It changes no
\* member state; were on_new_event to read on, it would find the
\* membership m and the user u in it.
OtherEventTypes == {"m.room.message", "m.room.power_levels", "m.room.member"}

ExtOtherEvent(event_type, is_state, u, m) ==
  /\ ext_events < MaxExternalEvents
  /\ ~(event_type = "m.room.member" /\ is_state)
  /\ LET t == on_any_event(event_type, is_state,
                           [member_state EXCEPT ![u] = MemberEvent(m, u, FALSE, @)],
                           u, "ok", "ok", Tasks)
     IN  /\ join_task' = t.join
         /\ invite_task' = t.invite
         /\ leave_task' = t.leave
  /\ ext_events' = ext_events + 1
  /\ UNCHANGED <<power_levels, join_rule, member_state, issued, m_direct,
                 inviter_calls, knock_calls, dm_tasks, endpoint_vars>>

\* ------------------------------------------------------------------------
\* _retry_make_join and the DM tag that follows it in on_new_event
\* ------------------------------------------------------------------------
MaxRetries == 5

\* sleep = 2**retries, computed before retries += 1
NextSleepAfterIncrement(retries) == 2 ^ (retries + 1)

NextSleep(retries) == 2 ^ retries

\* The loop condition and the break, after one iteration.
LoopEnds(t) == t.join_event \/ ~(t.retries < MaxRetries)

AfterIterationNoRetry(t) ==
  [t EXCEPT !.pc = IF t.is_direct THEN "mark_dm" ELSE "done"]

AfterIteration(t) ==
  IF LoopEnds(t)
    THEN [t EXCEPT !.pc = IF t.is_direct THEN "mark_dm" ELSE "done"]
    ELSE t

JoinRecord(u, ok) == [type |-> "join", sender |-> u, target |-> u, ok |-> ok]

\* One iteration: sleep, then update_room_membership(sender=u, target=u,
\* new_membership="join") returns the join event, and on_new_event runs
\* for the join event this persists.
JoinAttemptSucceeds(u) ==
  /\ join_task[u].pc = "attempt"
  /\ JoinAdmitted(member_state, u)
  /\ LET ms == [member_state EXCEPT ![u] =
                 IF @.membership = "join" THEN @ ELSE MemberEvent("join", u, FALSE, @)]
         t == on_any_event("m.room.member", TRUE, ms, u, "ok", "ok",
                [Tasks EXCEPT !.join[u] =
                   AfterIteration([@ EXCEPT !.attempts = @ + 1,
                                            !.delays = Append(@, join_task[u].sleep),
                                            !.join_event = TRUE])])
     IN  /\ member_state' = ms
         /\ join_task' = t.join
         /\ invite_task' = t.invite
         /\ leave_task' = t.leave
  /\ issued' = issued \cup {JoinRecord(u, TRUE)}
  /\ UNCHANGED <<power_levels, join_rule, m_direct,
                 ext_events, inviter_calls, knock_calls,
                 dm_tasks, endpoint_vars>>

\* One iteration in which update_room_membership raises (the join is not
\* admitted, or a transient failure).
JoinAttemptRaises(u) ==
  /\ join_task[u].pc = "attempt"
  /\ join_task' = [join_task EXCEPT ![u] =
       AfterIteration([@ EXCEPT !.attempts = @ + 1,
                                !.delays = Append(@, join_task[u].sleep),
                                !.sleep = NextSleep(join_task[u].retries),
                                !.retries = @ + 1])]
  /\ issued' = issued \cup {JoinRecord(u, FALSE)}
  /\ UNCHANGED <<power_levels, join_rule, member_state, invite_task, leave_task,
                 m_direct, ext_events, inviter_calls, knock_calls,
                 dm_tasks, endpoint_vars>>

\* One iteration in which update_room_membership returns without raising
\* and without an event.  ModuleApi.update_room_membership is declared to
\* return the event, so this step is part of SpecRetryAny only.
JoinAttemptReturnsNone(u) ==
  /\ join_task[u].pc = "attempt"
  /\ join_task[u].attempts < MaxObservedAttempts
  /\ join_task' = [join_task EXCEPT ![u] =
       AfterIteration([@ EXCEPT !.attempts = @ + 1,
                                !.delays = Append(@, join_task[u].sleep)])]
  /\ issued' = issued \cup {JoinRecord(u, FALSE)}
  /\ UNCHANGED <<power_levels, join_rule, member_state, invite_task, leave_task,
                 m_direct, ext_events, inviter_calls, knock_calls,
                 dm_tasks, endpoint_vars>>

\* _mark_room_as_direct_message(invitee, inviter, room_id)
MarkRoomAsDirectMessage(u) ==
  /\ join_task[u].pc = "mark_dm"
  /\ LET call == mark_room_as_direct_message(m_direct[u], join_task[u].dm_user, TheRoom)
     IN  m_direct' = IF call.put
                       THEN [m_direct EXCEPT ![u] = put_global(@, call.dm_map)]
                       ELSE m_direct
  /\ join_task' = [join_task EXCEPT ![u].pc = "done"]
  /\ UNCHANGED <<power_levels, join_rule, member_state, invite_task, leave_task,
                 issued, ext_events, inviter_calls, knock_calls,
                 dm_tasks, endpoint_vars>>

\* _mark_room_as_direct_message when account_data_manager.get_global or
\* put_global raises: on_new_event awaits it outside any try, so the
\* exception leaves on_new_event; nothing is written.
MarkRoomAsDirectMessageRaises(u) ==
  /\ join_task[u].pc = "mark_dm"
  /\ join_task' = [join_task EXCEPT ![u].pc = "done", ![u].raised = TRUE]
  /\ UNCHANGED <<power_levels, join_rule, member_state, invite_task, leave_task,
                 issued, m_direct, ext_events, inviter_calls, knock_calls,
                 dm_tasks, endpoint_vars>>

\* ------------------------------------------------------------------------
\* _auto_invite_knocker: invite_user_to_room(api, user_id, room_id)
\* ------------------------------------------------------------------------
\* The promoting inviter resolution: the selected candidate whatever its
\* power, None without power levels or local joined members.
get_inviter_promoting(pl, ms, order) ==
  IF pl.kind # "content" \/ LocalJoinedMembers(ms) = {} THEN NoUser
  ELSE HighestLoop(order, 1, UsersPowerLevel(pl),
                   IntOrDefault(pl.users_default, DEFAULT_USERS_DEFAULT_POWER_LEVEL).n,
                   <<NoUser, 0>>)[1]

\* The update if it wrote a users map holding the promoted user alone.
PromotedReplacingUsers(pl, u) ==
  [pl EXCEPT !.users_is_dict = TRUE,
             !.users = [v \in Users |->
                          IF v = u THEN JInt(InvitePowerOf(pl)) ELSE JAbsent]]

\* The power-levels content with one user's entry raised to the invite
\* power, merged into the existing users map.
Promoted(pl, u) ==
  [pl EXCEPT !.users_is_dict = TRUE,
             !.users = [UsersPowerLevel(pl) EXCEPT ![u] = JInt(InvitePowerOf(pl))]]

AutoInviteResolve(u) ==
  /\ invite_task[u].pc = "resolve"
  /\ \E order \in IterationOrders(LocalJoinedMembers(member_state)) :
       LET inviter == get_inviter_promoting(power_levels, member_state, order) IN
       invite_task' = [invite_task EXCEPT ![u] =
         IF inviter = NoUser THEN [@ EXCEPT !.pc = "done"]
         ELSE [@ EXCEPT !.inviter = inviter,
                        !.pc = IF PowerOf(power_levels, inviter) < InvitePowerOf(power_levels)
                                 THEN "promote" ELSE "invite"]]
  /\ UNCHANGED <<power_levels, join_rule, member_state, join_task, leave_task,
                 issued, m_direct, ext_events, inviter_calls, knock_calls,
                 dm_tasks, endpoint_vars>>

PowerLevelsRecord(u, ok) ==
  [type |-> "power_levels", sender |-> u, target |-> u, ok |-> ok]

\* The promotion; on_new_event runs for the m.room.power_levels event an
\* admitted promotion persists.
AutoInvitePromote(u, ok) ==
  /\ invite_task[u].pc = "promote"
  /\ power_levels' = IF ok THEN Promoted(power_levels, invite_task[u].inviter)
                     ELSE power_levels
  /\ LET t == IF ok
                THEN on_any_event("m.room.power_levels", TRUE, member_state,
                                  invite_task[u].inviter, "ok", "ok",
                                  [Tasks EXCEPT !.invite[u] = [@ EXCEPT !.pc = "invite"]])
                ELSE [Tasks EXCEPT !.invite[u] = [@ EXCEPT !.pc = "done", !.failed = TRUE]]
     IN  /\ join_task' = t.join
         /\ invite_task' = t.invite
         /\ leave_task' = t.leave
  /\ issued' = issued \cup {PowerLevelsRecord(invite_task[u].inviter, ok)}
  /\ UNCHANGED <<join_rule, member_state, m_direct,
                 ext_events, inviter_calls, knock_calls,
                 dm_tasks, endpoint_vars>>

InviteRecord(s, u, ok) == [type |-> "invite", sender |-> s, target |-> u, ok |-> ok]

AutoInviteSend(u) ==
  /\ invite_task[u].pc = "invite"
  /\ InviteAdmitted(power_levels, member_state, invite_task[u].inviter, u)
  /\ \E sq \in StateQueryOutcomes, lk \in LookupOutcomes :
       LET ms == [member_state EXCEPT ![u] =
                    MemberEvent("invite", invite_task[u].inviter, FALSE, @)]
           t == on_any_event("m.room.member", TRUE, ms, u, sq, lk,
                             [Tasks EXCEPT !.invite[u] =
                                [@ EXCEPT !.pc = "done",
                                          !.reads_failed = (sq # "ok" \/ lk # "ok")]])
       IN  /\ ReadsMade([membership |-> "invite", target |-> u,
                         replaces |-> member_state[u].membership], sq, lk)
           /\ member_state' = ms
           /\ join_task' = t.join
           /\ invite_task' = t.invite
           /\ leave_task' = t.leave
           /\ knock_calls' =
                IF is_mine(u)
                  THEN <<[invitee |-> u, state_query |-> sq, lookup |-> lk,
                          result |-> has_user_previously_knocked(ms[u], sq, lk)]>>
                  ELSE knock_calls
  /\ issued' = issued \cup {InviteRecord(invite_task[u].inviter, u, TRUE)}
  /\ UNCHANGED <<power_levels, join_rule, m_direct, ext_events, inviter_calls,
                 dm_tasks, endpoint_vars>>

AutoInviteFails(u) ==
  /\ invite_task[u].pc = "invite"
  /\ invite_task' = [invite_task EXCEPT ![u] = [@ EXCEPT !.pc = "done", !.failed = TRUE]]
  /\ issued' = issued \cup {InviteRecord(invite_task[u].inviter, u, FALSE)}
  /\ UNCHANGED <<power_levels, join_rule, member_state, join_task, leave_task,
                 m_direct, ext_events, inviter_calls, knock_calls,
                 dm_tasks, endpoint_vars>>

\* ------------------------------------------------------------------------
\* _ensure_inviter_on_leave
\* ------------------------------------------------------------------------
RestrictedJoinRulesAndKnock == {"knock_restricted", "restricted", "knock"}

RestrictedJoinRules == {"knock_restricted", "restricted"}

\* An exception raised inside the try of _ensure_inviter_on_leave leaves the
\* function only if except Exception does not catch it.
EscapesEnsureInviter(exc) == FALSE

\* reads the join rules; returns unless the room is (knock_)restricted.
\* read is what get_room_state does.
EnsureReadJoinRules ==
  /\ leave_task.pc = "join_rules"
  /\ \E read \in StateQueryOutcomes :
       leave_task' =
         IF read = "raise"
           THEN [leave_task EXCEPT !.pc = "done",
                                   !.raised = EscapesEnsureInviter("Exception")]
           ELSE [leave_task EXCEPT !.pc =
                   IF join_rule \in RestrictedJoinRules THEN "get_inviter" ELSE "done"]
  /\ UNCHANGED <<power_levels, join_rule, member_state, join_task, invite_task,
                 issued, m_direct, ext_events, inviter_calls, knock_calls,
                 dm_tasks, endpoint_vars>>

\* inviter = await get_inviter_user(...); a warning is logged when None
EnsureGetInviter ==
  /\ leave_task.pc = "get_inviter"
  /\ \E order \in IterationOrders(LocalJoinedMembers(member_state)) :
       LET inviter == get_inviter_user(power_levels, member_state, order) IN
       leave_task' = [leave_task EXCEPT
         !.pc = "done",
         !.resolved = TRUE,
         !.inviter = inviter,
         !.raised = inviter \notin Users \cup {NoUser} /\ EscapesEnsureInviter(inviter)]
  /\ UNCHANGED <<power_levels, join_rule, member_state, join_task, invite_task,
                 issued, m_direct, ext_events, inviter_calls, knock_calls,
                 dm_tasks, endpoint_vars>>

\* ------------------------------------------------------------------------
\* Configuration and the sliding-window rate limiter
\* ------------------------------------------------------------------------
\* The rate-limit attributes of PangeaChatConfig with their values when the
\* homeserver configuration sets none.
PangeaChatConfig ==
  [public_courses_burst_duration_seconds |-> 120,
   public_courses_requests_per_burst |-> 120,
   room_preview_burst_duration_seconds |-> 60,
   room_preview_requests_per_burst |-> 10,
   knock_with_code_requests_per_burst |-> 10,
   knock_with_code_burst_duration_seconds |-> 60,
   delete_room_requests_per_burst |-> 10,
   delete_room_burst_duration_seconds |-> 60]

\* config.<name>: the value, or AttributeError for a name the class lacks
ConfigAttr(name) ==
  IF name \in DOMAIN PangeaChatConfig
    THEN [exc |-> "ok", n |-> PangeaChatConfig[name]]
    ELSE [exc |-> "AttributeError", n |-> 0]

\* getattr(config, name, default)
ConfigGetattr(name, default) ==
  IF name \in DOMAIN PangeaChatConfig THEN PangeaChatConfig[name] ELSE default

\* The timestamps kept by the list comprehension of the limiter.
RecentRequests(log, now, window_seconds) ==
  SelectSeq(log, LAMBDA timestamp : now - timestamp <= window_seconds)

\* The limiter on one user's log: the answer and the log it leaves.
SlidingWindowRecordsLimited(log, now, window_seconds, max_requests) ==
  LET recent == RecentRequests(log, now, window_seconds) IN
    [limited |-> Len(recent) >= max_requests, log |-> Append(recent, now)]

SlidingWindow(log, now, window_seconds, max_requests) ==
  LET recent == RecentRequests(log, now, window_seconds) IN
    IF Len(recent) >= max_requests
      THEN [limited |-> TRUE, log |-> recent]
      ELSE [limited |-> FALSE, log |-> Append(recent, now)]

\* ------------------------------------------------------------------------
\* POST request_auto_join
\* ------------------------------------------------------------------------
\* _is_rate_limited(user_id, config) of request_auto_join on a user's log:
\* the comprehension reads config.request_auto_join_burst_duration_seconds
\* for each logged timestamp, then config.request_auto_join_requests_per_burst
\* is read.
request_auto_join_is_rate_limited(log, now) ==
  LET duration == ConfigAttr("request_auto_join_burst_duration_seconds")
      requests == ConfigAttr("request_auto_join_requests_per_burst")
  IN  IF log # <<>> /\ duration.exc # "ok" THEN [exc |-> duration.exc, limited |-> FALSE]
      ELSE IF requests.exc # "ok" THEN [exc |-> requests.exc, limited |-> FALSE]
      ELSE [exc |-> "ok",
            limited |-> SlidingWindow(log, now, duration.n, requests.n).limited]

\* What the request body holds: no JSON object, a JSON object without a
\* non-empty string room_id, or a room_id.
RequestBodies == {"not_json", "no_room_id", "room_id"}

\* _was_previous_member and _is_currently_joined: a failed state read
\* answers False.
was_previous_member(ev, state_query) ==
  state_query = "ok" /\ ev.membership # NoMembership

is_currently_joined(ev, state_query) ==
  state_query = "ok" /\ ev.membership = "join"

\* The answer of _async_render_POST, "invite" when it goes on to
\* invite_user_to_room.
RequestAutoJoinAnswer(authed, body, ev, log, now, prev_query, joined_query) ==
  IF ~authed THEN 403
  ELSE LET rl == request_auto_join_is_rate_limited(log, now) IN
    IF rl.exc # "ok" THEN 500
    ELSE IF rl.limited THEN 429
    ELSE IF body = "not_json" THEN 400
    ELSE IF body = "no_room_id" THEN 400
    ELSE IF ~was_previous_member(ev, prev_query) THEN 403
    ELSE IF is_currently_joined(ev, joined_query) THEN 400
    ELSE 200

\* One request of u.  With the PangeaChatConfig above the limiter raises
\* for every authenticated requester, so invite_user_to_room is never
\* reached; where it would be, the invite process of u is started and the
\* answer that follows its return is recorded.
RequestAutoJoinPOST(u, authed, body) ==
  /\ Len(http_responses) < MaxRequests
  /\ \E prev_query \in StateQueryOutcomes, joined_query \in StateQueryOutcomes :
       LET status == RequestAutoJoinAnswer(authed, body, member_state[u], <<>>,
                                           current_time, prev_query, joined_query)
       IN  /\ http_responses' = Append(http_responses,
                 [endpoint |-> "request_auto_join", user |-> u, authed |-> authed,
                  body |-> body, membership |-> member_state[u].membership,
                  knocked |-> invite_task[u].pc # "idle",
                  status |-> status])
           /\ invite_task' = IF status = 200
                               THEN [invite_task EXCEPT ![u] =
                                       [IdleInviteTask EXCEPT !.pc = "resolve"]]
                               ELSE invite_task
  /\ UNCHANGED <<power_levels, join_rule, member_state, join_task, leave_task,
                 issued, m_direct, ext_events, inviter_calls, knock_calls,
                 room_purged, request_log, current_time, rate_calls,
                 course_rooms, course_pages, dm_tasks>>

\* ------------------------------------------------------------------------
\* user_activity.is_rate_limited
\* ------------------------------------------------------------------------
\* _get_config_window: the window and the allowance, each at least 1.
get_config_window ==
  LET duration == ConfigGetattr("user_activity_burst_duration_seconds", 60)
      requests == ConfigGetattr("user_activity_requests_per_burst", 10)
  IN  [window_seconds |-> IF duration < 1 THEN 1 ELSE duration,
       max_requests   |-> IF requests < 1 THEN 1 ELSE requests]

\* The users whose requests reach the limiter.
ActivityCallers == {"alice", "bob"}

RateCallsMade ==
  Len(rate_calls["alice"]) + Len(rate_calls["bob"])

\* is_rate_limited(user_id, config) at time.time() = current_time.
is_rate_limited(user_id) ==
  /\ RateCallsMade < MaxRateCalls
  /\ LET w == get_config_window
         r == SlidingWindow(request_log[user_id], current_time,
                            w.window_seconds, w.max_requests)
     IN  /\ request_log' = [request_log EXCEPT ![user_id] = r.log]
         /\ rate_calls' = [rate_calls EXCEPT ![user_id] =
              Append(@, [time |-> current_time, limited |-> r.limited])]
  /\ UNCHANGED <<module_vars, http_responses, room_purged, current_time,
                 course_rooms, course_pages>>

\* time.time() between two calls: the clock moves to the edge of the window
\* or just past it.
TimePasses(d) ==
  /\ current_time + d <= MaxTime
  /\ current_time' = current_time + d
  /\ UNCHANGED <<module_vars, http_responses, room_purged, request_log,
                 rate_calls, course_rooms, course_pages>>

InitRateLimit ==
  /\ Quiescent
  /\ member_state = [u \in Users |-> NoMemberEvent]
  /\ power_levels = NoPowerLevels
  /\ join_rule = "absent"

NextRateLimit ==
  \/ \E user_id \in ActivityCallers : is_rate_limited(user_id)
  \/ \E d \in {get_config_window.window_seconds,
                get_config_window.window_seconds + 1} : TimePasses(d)

SpecRateLimit == InitRateLimit /\ [][NextRateLimit]_vars

\* ------------------------------------------------------------------------
\* get_public_courses
\* ------------------------------------------------------------------------
\* Python truth of the since argument (None or a string).
Truthy(v) == v.t \notin {"null", "absent"}

\* str(n)
PyStr(n) == JNumStr(n)

Min(a, b) == IF a <= b THEN a ELSE b

Max(a, b) == IF a >= b THEN a ELSE b

\* ORDER BY room_id
RECURSIVE OrderByRoomId(_)
OrderByRoomId(S) ==
  IF S = {} THEN <<>>
  ELSE LET first == CHOOSE r \in S : \A q \in S : r <= q
       IN  <<first>> \o OrderByRoomId(S \ {first})

\* seq[from : to] of Python, 0-based and clipped to the sequence.
Slice(seq, from, to) == SubSeq(seq, from + 1, Min(to, Len(seq)))

overfetch_limit_is_limit(limit) == limit

overfetch_limit(limit) == limit + 1

\* prev_batch of a page that starts at start_index.
prev_batch_of(start_index, limit) ==
  IF start_index <= 0 THEN JNull ELSE PyStr(Max(0, start_index - limit))

\* get_public_courses(room_store, config, limit, since) over the public
\* course rooms: the rooms of the chunk and the two tokens.
get_public_courses(rooms, limit_arg, since) ==
  LET limit == IF limit_arg <= 0 THEN 10 ELSE limit_arg
      converted == PyInt(since)
      start_index ==
        IF Truthy(since)
          THEN IF converted.exc = "ok"
                 THEN IF converted.n < 0 THEN 0 ELSE converted.n
                 ELSE 0
          ELSE 0
      total_room_count == Cardinality(rooms)
      room_ids == Slice(OrderByRoomId(rooms), start_index,
                        start_index + overfetch_limit(limit))
      has_next == Len(room_ids) > limit
  IN  IF total_room_count = 0
        THEN [chunk |-> <<>>, next_batch |-> JNull, prev_batch |-> JNull,
              total_room_count_estimate |-> 0]
      ELSE IF room_ids = <<>>
        THEN [chunk |-> <<>>, next_batch |-> JNull,
              prev_batch |-> prev_batch_of(start_index, limit),
              total_room_count_estimate |-> total_room_count]
      ELSE [chunk |-> Slice(room_ids, 0, limit),
            next_batch |-> IF has_next /\ start_index + limit < total_room_count
                             THEN PyStr(start_index + limit) ELSE JNull,
            prev_batch |-> prev_batch_of(start_index, limit),
            total_room_count_estimate |-> total_room_count]

\* The limit and since arguments requested.
Limits == {-1, 0, 2, 10}

SinceValues == {JNull, JStr} \cup {JNumStr(n) : n \in -1..(MaxRoomId + 1)}

Page(limit_arg, since) ==
  [limit |-> limit_arg, since |-> since,
   response |-> get_public_courses(course_rooms, limit_arg, since)]

\* The first request of a client, with any arguments.
GetPublicCourses(limit_arg, since) ==
  /\ course_pages = <<>>
  /\ course_pages' = <<Page(limit_arg, since)>>
  /\ UNCHANGED <<module_vars, http_responses, room_purged, request_log,
                 current_time, rate_calls, course_rooms>>

\* The client asks for the page named by the next_batch it was given.
FollowNextBatch ==
  /\ course_pages # <<>>
  /\ LET last == course_pages[Len(course_pages)] IN
       /\ last.response.next_batch # JNull
       /\ course_pages' = Append(course_pages, Page(last.limit, last.response.next_batch))
  /\ UNCHANGED <<module_vars, http_responses, room_purged, request_log,
                 current_time, rate_calls, course_rooms>>

InitPublicCourses ==
  /\ ModuleIdle
  /\ NoRequestYet
  /\ course_rooms \in SUBSET (1..MaxRoomId)
  /\ member_state = [u \in Users |-> NoMemberEvent]
  /\ power_levels = NoPowerLevels
  /\ join_rule = "absent"

NextPublicCourses ==
  \/ \E limit_arg \in Limits, since \in SinceValues : GetPublicCourses(limit_arg, since)
  \/ FollowNextBatch

SpecPublicCourses == InitPublicCourses /\ [][NextPublicCourses]_vars

\* ------------------------------------------------------------------------
\* POST delete_room
\* ------------------------------------------------------------------------
\* get_room_members(api, room_id): the joined members, local or remote
get_room_members(ms) == {u \in Users : ms[u].membership = "join"}

\* The largest of a non-empty set of numbers.
MaxOf(S) == CHOOSE n \in S : \A m \in S : m <= n

\* user_has_highest_power_level(api, user_id, room_id) on a power-levels
\* event whose users map, if any, holds integers: the exception raised, if
\* any, and the result (users_default is never bound without a power-levels
\* event; highest_power_level stays None when users is empty).
user_has_highest_power_level_strict(pl, user_id) ==
  IF pl.kind = "none" THEN [exc |-> "UnboundLocalError", result |-> FALSE]
  ELSE
    LET users_default == IF pl.users_default.t = "absent" THEN 0 ELSE pl.users_default.n
        user_power_levels == UsersPowerLevel(pl)
        listed == {u \in Users : user_power_levels[u].t # "absent"}
        user_power_level == IF user_id \in listed THEN user_power_levels[user_id].n
                            ELSE users_default
    IN  IF listed = {} THEN [exc |-> "TypeError", result |-> FALSE]
        ELSE [exc |-> "ok",
              result |-> user_power_level > MaxOf({user_power_levels[u].n : u \in listed})]

user_has_highest_power_level(pl, user_id) ==
  IF pl.kind = "none" THEN [exc |-> "UnboundLocalError", result |-> FALSE]
  ELSE
    LET users_default == IF pl.users_default.t = "absent" THEN 0 ELSE pl.users_default.n
        user_power_levels == UsersPowerLevel(pl)
        listed == {u \in Users : user_power_levels[u].t # "absent"}
        user_power_level == IF user_id \in listed THEN user_power_levels[user_id].n
                            ELSE users_default
    IN  IF listed = {} THEN [exc |-> "TypeError", result |-> FALSE]
        ELSE [exc |-> "ok",
              result |-> user_power_level >= MaxOf({user_power_levels[u].n : u \in listed})]

\* The answer of _async_render_POST up to the power check, "delete" when it
\* goes on to remove the members.  limited is the answer of the endpoint's
\* rate limiter.
DeleteRoomAnswer(authed, limited, body, pl, ms, u) ==
  IF ~authed THEN 403
  ELSE IF limited THEN 429
  ELSE IF body = "not_json" THEN 400
  ELSE IF body = "no_room_id" THEN 400
  ELSE IF u \notin get_room_members(ms) THEN 400
  ELSE LET highest == user_has_highest_power_level(pl, u) IN
    IF highest.exc # "ok" THEN 500
    ELSE IF ~highest.result THEN 400
    ELSE 200

\* The requester's power as the room states it is at least every power
\* its users map lists.
AtLeastEveryListedPower(u) ==
  \A v \in Users :
    (power_levels.users_is_dict /\ power_levels.users[v].t = "int")
      => EffectivePower(u) >= power_levels.users[v].n

\* One request of u.  After the checks, update_room_membership(user, user,
\* room_id, "leave") is called for every joined member (a call that raises
\* is logged and skipped; on_new_event sees every leave) and purge_room
\* deletes the room's state unless it raises.  The request's inputs and
\* the room they met are recorded with the answer.
DeleteRoomPOST(u, authed, limited, body) ==
  /\ Len(http_responses) < MaxRequests
  /\ LET answer == DeleteRoomAnswer(authed, limited, body, power_levels, member_state, u)
         members == get_room_members(member_state)
     IN  \E failed \in SUBSET members, purge_ok \in BOOLEAN :
           LET removed == IF answer = 200 THEN members \ failed ELSE {}
               purged == answer = 200 /\ purge_ok
               status == IF answer = 200 /\ ~purge_ok THEN 500 ELSE answer
           IN  /\ answer # 200 => (failed = {} /\ purge_ok)
               /\ http_responses' = Append(http_responses,
                     [endpoint |-> "delete_room", user |-> u, authed |-> authed,
                      limited |-> limited, body |-> body,
                      joined |-> u \in members,
                      lists_users |-> (\E v \in Users : UsersPowerLevel(power_levels)[v].t # "absent"),
                      at_least_listed |-> AtLeastEveryListedPower(u),
                      tied |-> (\E v \in Users \ {u} :
                                  /\ power_levels.users_is_dict
                                  /\ power_levels.users[v] = JInt(EffectivePower(u))),
                      removed |-> removed, purged |-> purged, status |-> status])
               /\ member_state' =
                     IF purged THEN [v \in Users |-> NoMemberEvent]
                     ELSE [v \in Users |->
                             IF v \in removed
                               THEN MemberEvent("leave", v, FALSE, member_state[v])
                               ELSE member_state[v]]
               /\ power_levels' = IF purged THEN NoPowerLevels ELSE power_levels
               /\ join_rule' = IF purged THEN "absent" ELSE join_rule
               /\ room_purged' = (room_purged \/ purged)
               /\ leave_task' = IF removed = {} THEN leave_task
                                 ELSE [IdleLeaveTask EXCEPT !.pc = "join_rules"]
  /\ UNCHANGED <<join_task, invite_task, issued, m_direct, ext_events,
                 inviter_calls, knock_calls, request_log, current_time,
                 rate_calls, course_rooms, course_pages, dm_tasks>>

\* Rooms for delete_room: none, some or all of Alice, Bob and the remote
\* user joined; no power-levels event, an empty one, or one listing none,
\* some or all of them.
DeleteRoomPowerLevels ==
  {NoPowerLevels, EmptyPowerLevels} \cup
  [kind : {"content"}, invite : {JInt(50)},
   users_default : {JAbsent, JInt(50)},
   users_is_dict : {TRUE},
   users : {f \in [Users -> {JAbsent, JInt(0), JInt(50), JInt(100)}] :
              f["carol"] = JAbsent /\ f["remo"] \in {JAbsent, JInt(100)}}]

InitDeleteRoom ==
  /\ power_levels \in DeleteRoomPowerLevels
  /\ join_rule = "knock_restricted"
  /\ \E J \in SUBSET {"alice", "bob", "remo"} :
       member_state = [u \in Users |->
         IF u \in J THEN JoinedOrLeft(u, TRUE)
         ELSE IF u = "carol" THEN NoMemberEvent ELSE JoinedOrLeft(u, FALSE)]
  /\ Quiescent

NextDeleteRoom ==
  \/ \E u \in LocalUsers, authed \in BOOLEAN, limited \in BOOLEAN, body \in RequestBodies :
       DeleteRoomPOST(u, authed, limited, body)
  \/ EnsureReadJoinRules
  \/ EnsureGetInviter

SpecDeleteRoom == InitDeleteRoom /\ [][NextDeleteRoom]_vars

\* ------------------------------------------------------------------------
\* The module in a room
\* ------------------------------------------------------------------------
RoomJoinRules == {"knock", "knock_restricted", "restricted"}

\* Alice (100) and Bob are joined, Carol is not; inviting needs 50; a
\* remote user with power 100 may be joined as well.
Room(b, r) ==
  /\ power_levels =
       [kind |-> "content", invite |-> JInt(50), users_default |-> JInt(0),
        users_is_dict |-> TRUE,
        users |-> [u \in Users |->
          CASE u = "alice" -> JInt(100)
            [] u = "bob" -> b
            [] u = "remo" -> IF r THEN JInt(100) ELSE JAbsent
            [] OTHER -> JAbsent]]
  /\ member_state = [u \in Users |->
       IF u \in {"alice", "bob"} \/ (u = "remo" /\ r)
         THEN MemberEvent("join", u, FALSE, NoMemberEvent)
         ELSE NoMemberEvent]

Init ==
  /\ \E b \in WellFormedPowers, r \in BOOLEAN : Room(b, r)
  /\ join_rule \in RoomJoinRules
  /\ Quiescent

\* The rooms of the end-to-end scenarios: Bob has power 0 (stated or by
\* default), every member is local, knocking is allowed.
InitScenario ==
  /\ \E b \in {JAbsent, JInt(0)} : Room(b, FALSE)
  /\ join_rule \in {"knock", "knock_restricted"}
  /\ Quiescent

\* The room of scenario B: Alice (power a) is the only local member; the
\* remote user with power 100 may be joined as well.
SoleMemberRoom(a, r) ==
  /\ power_levels =
       [kind |-> "content", invite |-> JInt(50), users_default |-> JInt(0),
        users_is_dict |-> TRUE,
        users |-> [u \in Users |->
          CASE u = "alice" -> a
            [] u = "remo" -> IF r THEN JInt(100) ELSE JAbsent
            [] OTHER -> JAbsent]]
  /\ member_state = [u \in Users |->
       IF u = "alice" \/ (u = "remo" /\ r)
         THEN MemberEvent("join", u, FALSE, NoMemberEvent)
         ELSE NoMemberEvent]

InitSoleMember ==
  /\ \E a \in {JInt(100), JInt(0)}, r \in BOOLEAN : SoleMemberRoom(a, r)
  /\ join_rule \in {"knock", "knock_restricted"}
  /\ Quiescent

\* The room of the request_auto_join tests: Alice (100) has left, Bob
\* (power 0, stated or by default) is joined, inviting needs 50.
InitAdminLeft ==
  /\ \E b \in {JAbsent, JInt(0)} :
       power_levels =
         [kind |-> "content", invite |-> JInt(50), users_default |-> JInt(0),
          users_is_dict |-> TRUE,
          users |-> [u \in Users |->
            CASE u = "alice" -> JInt(100) [] u = "bob" -> b [] OTHER -> JAbsent]]
  /\ member_state = [u \in Users |->
       CASE u = "alice" -> JoinedOrLeft(u, FALSE)
         [] u = "bob" -> JoinedOrLeft(u, TRUE)
         [] OTHER -> NoMemberEvent]
  /\ join_rule \in {"knock", "knock_restricted"}
  /\ Quiescent

\* The same room under any join rule, the room without a join-rules event
\* included.
AnyJoinRules == {"absent", "public", "invite", "knock", "restricted", "knock_restricted"}

InitAnyJoinRule ==
  /\ \E b \in {JAbsent, JInt(0)} : Room(b, FALSE)
  /\ join_rule \in AnyJoinRules
  /\ Quiescent

\* A room whose two local members share the maximal power, below the invite
\* power: Alice and Bob are joined with the default power 0, inviting
\* needs 50.
TiedPowerLevels ==
  [kind |-> "content", invite |-> JInt(50), users_default |-> JInt(0),
   users_is_dict |-> TRUE, users |-> [u \in Users |-> JAbsent]]

TiedMembers ==
  [u \in Users |->
     IF u \in {"alice", "bob"} THEN MemberEvent("join", u, FALSE, NoMemberEvent)
     ELSE NoMemberEvent]

InitTiedRoom ==
  /\ power_levels = TiedPowerLevels
  /\ member_state = TiedMembers
  /\ join_rule \in {"knock", "knock_restricted"}
  /\ Quiescent

External ==
  \/ \E u \in Users : ExtKnock(u)
  \/ \E s \in Users, u \in Users, direct \in BOOLEAN : ExtInvite(s, u, direct)
  \/ \E u \in Users, m \in {"leave", "ban"} : ExtLeaveOrBan(u, m)
  \/ \E u \in Users : ExtJoin(u)

Module ==
  \/ \E u \in Users : JoinAttemptSucceeds(u)
  \/ \E u \in Users : JoinAttemptRaises(u)
  \/ \E u \in Users : MarkRoomAsDirectMessage(u)
  \/ \E u \in Users : MarkRoomAsDirectMessageRaises(u)
  \/ \E u \in Users : AutoInviteResolve(u)
  \/ \E u \in Users, ok \in BOOLEAN : AutoInvitePromote(u, ok)
  \/ \E u \in Users : AutoInviteSend(u)
  \/ \E u \in Users : AutoInviteFails(u)
  \/ EnsureReadJoinRules
  \/ EnsureGetInviter

Next == External \/ Module

Spec == Init /\ [][Next]_vars

\* The reactor runs every started background process to its end.
FairSpec == InitScenario /\ [][Next]_vars /\ WF_vars(Module)

\* The module in a room under any join rule.
SpecAnyJoinRule == InitAnyJoinRule /\ [][Next]_vars

\* The module in the room with tied members.
SpecTiedRoom == InitTiedRoom /\ [][Next]_vars

\* The module in the room of scenario B.
SpecSoleMember == InitSoleMember /\ [][Next]_vars

\* The module and the request_auto_join endpoint after the admin left.
NextRequestAutoJoin ==
  \/ Next
  \/ \E u \in LocalUsers, authed \in BOOLEAN, body \in RequestBodies :
       RequestAutoJoinPOST(u, authed, body)

SpecRequestAutoJoin == InitAdminLeft /\ [][NextRequestAutoJoin]_vars

\* The same room when update_room_membership may also return without an
\* event.
NextRetryAny == Next \/ \E u \in Users : JoinAttemptReturnsNone(u)

SpecRetryAny == Init /\ [][NextRetryAny]_vars

\* The same room when events of every kind reach on_new_event.
NextAnyEvent ==
  \/ Next
  \/ \E event_type \in OtherEventTypes, is_state \in BOOLEAN, u \in LocalUsers,
        m \in {"invite", "knock", "leave"} :
       ExtOtherEvent(event_type, is_state, u, m)

SpecAnyEvent == Init /\ [][NextAnyEvent]_vars

\* ------------------------------------------------------------------------
\* _mark_room_as_direct_message, one await at a time
\* ------------------------------------------------------------------------
\* on_new_event reaches its call of _mark_room_as_direct_message for the
\* invitee user_id, the inviter dm_user_id and the room of the invite.  The
\* runs take the task slots in order.
DmOwners == {"bob", "carol"}

DmCounterparties == {"alice", "remo"}

StartMarkRoomAsDirectMessage(k, user_id, dm_user_id, room_id) ==
  /\ dm_tasks[k].pc = "idle"
  /\ \A j \in DmTaskIds : j < k => dm_tasks[j].pc # "idle"
  /\ dm_tasks' = [dm_tasks EXCEPT ![k] =
       [IdleDmTask EXCEPT !.pc = "get_global", !.user_id = user_id,
                          !.dm_user_id = dm_user_id, !.room_id = room_id]]
  /\ UNCHANGED <<power_levels, join_rule, member_state, join_task, invite_task,
                 leave_task, issued, m_direct, ext_events, inviter_calls,
                 knock_calls, endpoint_vars>>

\* await get_global(user_id, "m.direct"), then the lines up to the return
\* or to the call of put_global.
DmGetGlobal(k) ==
  /\ dm_tasks[k].pc = "get_global"
  /\ LET seen == m_direct[dm_tasks[k].user_id]
         call == mark_room_as_direct_message(seen, dm_tasks[k].dm_user_id,
                                             dm_tasks[k].room_id)
     IN  dm_tasks' = [dm_tasks EXCEPT ![k] =
           [@ EXCEPT !.pc = IF call.put THEN "put_global" ELSE "returned",
                     !.seen = seen, !.dm_map = call.dm_map]]
  /\ UNCHANGED <<power_levels, join_rule, member_state, join_task, invite_task,
                 leave_task, issued, m_direct, ext_events, inviter_calls,
                 knock_calls, endpoint_vars>>

\* await put_global(user_id, "m.direct", dm_map)
DmPutGlobal(k) ==
  /\ dm_tasks[k].pc = "put_global"
  /\ m_direct' = [m_direct EXCEPT ![dm_tasks[k].user_id] =
                    put_global(@, dm_tasks[k].dm_map)]
  /\ dm_tasks' = [dm_tasks EXCEPT ![k].pc = "done"]
  /\ UNCHANGED <<power_levels, join_rule, member_state, join_task, invite_task,
                 leave_task, issued, ext_events, inviter_calls, knock_calls,
                 endpoint_vars>>

\* The account data Carol and Bob start with: any of the value shapes for
\* each counterparty of Carol, nothing for Bob.
StoredDmValues == {NotInMap, DmTuple(<<TheRoom>>), DmList(<<"!other">>), DmNotAList}

InitDirectMessages ==
  /\ EndpointsIdle
  /\ member_state = [u \in Users |-> NoMemberEvent]
  /\ power_levels = NoPowerLevels
  /\ join_rule = "absent"
  /\ join_task = [u \in Users |-> IdleJoinTask]
  /\ invite_task = [u \in Users |-> IdleInviteTask]
  /\ leave_task = IdleLeaveTask
  /\ issued = {}
  /\ ext_events = 0
  /\ inviter_calls = <<>>
  /\ knock_calls = <<>>
  /\ dm_tasks = [k \in DmTaskIds |-> IdleDmTask]
  /\ \E a \in StoredDmValues, r \in StoredDmValues :
       m_direct = [u \in Users |->
                     IF u = "carol"
                       THEN [EmptyDmMap EXCEPT !["alice"] = a, !["remo"] = r]
                       ELSE EmptyDmMap]

NextDirectMessages ==
  \/ \E k \in DmTaskIds, user_id \in DmOwners, dm_user_id \in DmCounterparties,
        room_id \in RoomIds :
       StartMarkRoomAsDirectMessage(k, user_id, dm_user_id, room_id)
  \/ \E k \in DmTaskIds : DmGetGlobal(k)
  \/ \E k \in DmTaskIds : DmPutGlobal(k)

SpecDirectMessages == InitDirectMessages /\ [][NextDirectMessages]_vars

\* ------------------------------------------------------------------------
\* Claims about the m.direct account data
\* ------------------------------------------------------------------------
Listed(room_id, rooms) == \E i \in 1..Len(rooms) : rooms[i] = room_id

\* Task k takes its put_global step.
Puts(k) == dm_tasks[k].pc = "put_global" /\ dm_tasks'[k].pc = "done"

\* C25: _mark_room_as_direct_message appends the room to the counterparty's
\* list only if the list does not hold it yet: the list it writes holds the
\* room, starts with the rooms it read in their order, and is the list it
\* read when that list already held the room, so that a second call with
\* the same arguments adds no second occurrence.
C25_AppendOnlyIfAbsent ==
  [][\A k \in DmTaskIds :
       Puts(k) =>
         LET before == dm_tasks[k].seen[dm_tasks[k].dm_user_id].rooms
             after == m_direct'[dm_tasks[k].user_id][dm_tasks[k].dm_user_id].rooms
         IN  /\ Listed(dm_tasks[k].room_id, after)
             /\ Len(after) >= Len(before)
             /\ SubSeq(after, 1, Len(before)) = before
             /\ after = IF Listed(dm_tasks[k].room_id, before)
                          THEN before
                          ELSE Append(before, dm_tasks[k].room_id)]_vars

\* C26: a run that finds a value for the counterparty that is neither a
\* list nor a tuple returns without a write and leaves the account data as
\* it was; the account data changes only in the put_global step of a run
\* for that owner, and that step writes the entries of all other
\* counterparties back as the run read them.
C26_NoWriteOnUnknownValue ==
  [][/\ \A k \in DmTaskIds :
          /\ ( /\ dm_tasks[k].pc = "get_global"
               /\ dm_tasks'[k].pc # "get_global"
               /\ m_direct[dm_tasks[k].user_id][dm_tasks[k].dm_user_id].t
                    \notin {"absent", "tuple", "list"} )
             => dm_tasks'[k].pc = "returned" /\ m_direct' = m_direct
          /\ dm_tasks[k].pc = "returned" => dm_tasks'[k] = dm_tasks[k]
          /\ Puts(k) =>
               \A c \in Users \ {dm_tasks[k].dm_user_id} :
                 /\ m_direct'[dm_tasks[k].user_id][c] = dm_tasks[k].seen[c]
                 /\ m_direct[dm_tasks[k].user_id] = dm_tasks[k].seen
                      => m_direct'[dm_tasks[k].user_id][c]
                           = m_direct[dm_tasks[k].user_id][c]
     /\ \A u \in Users :
          m_direct'[u] # m_direct[u] =>
            \E k \in DmTaskIds :
              /\ Puts(k)
              /\ dm_tasks[k].user_id = u
              /\ dm_tasks[k].seen[dm_tasks[k].dm_user_id].t
                   \in {"absent", "tuple", "list"}]_vars

\* One run for Carol returned on a value that is not a list, another one
\* wrote its room for the other counterparty, and the unknown value is
\* still stored.
C26_Witness ==
  \E j \in DmTaskIds, k \in DmTaskIds :
    /\ dm_tasks[k].pc = "returned"
    /\ dm_tasks[j].pc = "done"
    /\ dm_tasks[j].user_id = "carol"
    /\ dm_tasks[k].user_id = "carol"
    /\ dm_tasks[j].dm_user_id # dm_tasks[k].dm_user_id
    /\ m_direct["carol"][dm_tasks[k].dm_user_id] = DmNotAList
    /\ Listed(dm_tasks[j].room_id, m_direct["carol"][dm_tasks[j].dm_user_id].rooms)

\* Two finished runs for one owner that read the same map, each adding a
\* room that map did not hold, and no third run finished.
BothReadThenBothWrote(j, k) ==
  /\ j # k
  /\ dm_tasks[j].pc = "done"
  /\ dm_tasks[k].pc = "done"
  /\ dm_tasks[j].user_id = dm_tasks[k].user_id
  /\ dm_tasks[j].seen = dm_tasks[k].seen
  /\ <<dm_tasks[j].dm_user_id, dm_tasks[j].room_id>>
       # <<dm_tasks[k].dm_user_id, dm_tasks[k].room_id>>
  /\ ~Listed(dm_tasks[j].room_id, dm_tasks[j].seen[dm_tasks[j].dm_user_id].rooms)
  /\ ~Listed(dm_tasks[k].room_id, dm_tasks[k].seen[dm_tasks[k].dm_user_id].rooms)
  /\ \A l \in DmTaskIds \ {j, k} : dm_tasks[l].pc # "done"

Tagged(k) ==
  Listed(dm_tasks[k].room_id,
         m_direct[dm_tasks[k].user_id][dm_tasks[k].dm_user_id].rooms)

\* C27: the update is an unguarded read-modify-write: when two runs for
\* the same owner both read before either wrote, the account data after
\* both completed is the map of one of them and the room the other one
\* added is missing.
C27_LostUpdate ==
  \A j \in DmTaskIds, k \in DmTaskIds :
    BothReadThenBothWrote(j, k) =>
      /\ m_direct[dm_tasks[j].user_id] \in {dm_tasks[j].dm_map, dm_tasks[k].dm_map}
      /\ ~(Tagged(j) /\ Tagged(k))

\* Both runs completed and the room of the first one is not in the index.
C27_Witness ==
  \E j \in DmTaskIds, k \in DmTaskIds :
    BothReadThenBothWrote(j, k) /\ ~Tagged(j) /\ Tagged(k)

\* ------------------------------------------------------------------------
\* Claims about the module in a room
\* ------------------------------------------------------------------------
\* Scenario A after Carol's knock: Alice (100) has left, Bob (power 0) is
\* the only local joined member, inviting needs 50, and no further
\* external event follows.
ScenarioA_Knocked ==
  /\ member_state["alice"].membership = "leave"
  /\ LocalJoined = {"bob"}
  /\ EffectivePower("bob") = 0
  /\ StatedInvitePower = 50
  /\ member_state["carol"].membership = "knock"
  /\ invite_task["carol"].pc = "resolve"
  /\ ext_events = MaxExternalEvents

ScenarioA_Joined ==
  /\ member_state["carol"].membership = "join"
  /\ EffectivePower("bob") >= 50
  /\ InviteRecord("bob", "carol", TRUE) \in issued
  /\ join_task["carol"].join_event
  /\ join_task["carol"].attempts <= 5

\* an external call of the flow did not succeed: the promotion or the
\* invite was refused, a history read failed, or all five joins raised
ScenarioA_CallsFailed ==
  \/ invite_task["carol"].failed
  \/ invite_task["carol"].reads_failed
  \/ /\ join_task["carol"].pc \in {"mark_dm", "done"}
     /\ ~join_task["carol"].join_event
     /\ join_task["carol"].attempts = 5

InviteOfKnockerArrives(u) ==
  /\ member_state'[u] # member_state[u]
  /\ member_state'[u].membership = "invite"
  /\ member_state'[u].replaces = "knock"
  /\ Len(knock_calls') = 1
  /\ knock_calls'[1].invitee = u
  /\ knock_calls'[1].state_query = "ok"
  /\ knock_calls'[1].lookup = "ok"

\* C2: when an invite for a local user that supersedes that user's knock
\* arrives (its history reads succeeding), the auto-join starts; a started
\* auto-join issues a join with sender = target = invitee; and an attempt
\* that succeeds leaves the user joined.
C2_InviteAfterKnockJoins ==
  /\ [][\A u \in LocalUsers :
          /\ InviteOfKnockerArrives(u) =>
               (join_task'[u].pc = "attempt" /\ join_task'[u].attempts = 0)
          /\ (join_task'[u].join_event /\ ~join_task[u].join_event) =>
               (member_state'[u].membership = "join"
                /\ JoinRecord(u, TRUE) \in issued')]_vars
  /\ \A u \in LocalUsers :
       (join_task[u].pc = "attempt" /\ join_task[u].attempts = 0)
         ~> (join_task[u].attempts >= 1
             /\ \E ok \in BOOLEAN : JoinRecord(u, ok) \in issued)

\* Dana's case: an external invite replaced Carol's knock and she is joined
C2_Witness ==
  /\ member_state["carol"].membership = "join"
  /\ member_state["carol"].replaces = "invite"
  /\ join_task["carol"].join_event
  /\ JoinRecord("carol", TRUE) \in issued
  /\ invite_task["carol"].pc = "resolve"

\* C3: the delay slept before attempt k is 0 for k = 1 and 2^(k-2) for
\* k = 2..5; there are at most five and they never decrease.
C3_BackoffDelays ==
  \A u \in Users :
    LET d == join_task[u].delays IN
      /\ Len(d) <= 5
      /\ \A k \in 1..Len(d) : d[k] = IF k = 1 THEN 0 ELSE 2 ^ (k - 2)
      /\ \A k \in 1..(Len(d) - 1) : d[k] <= d[k + 1]

C3_Witness == \E u \in Users : join_task[u].delays = <<0, 1, 2, 4, 8>>

\* C4: whatever update_room_membership does, the retry loop makes at most
\* five join attempts, none after one succeeded, and is over once five
\* have been made.
C4_AtMostFiveAttempts ==
  \A u \in Users :
    /\ join_task[u].attempts <= 5
    /\ join_task[u].join_event => join_task[u].pc # "attempt"
    /\ join_task[u].attempts = 5 => join_task[u].pc # "attempt"

C11_NoLocalMemberNoInvite ==
  [][\A u \in Users :
       (/\ invite_task[u].pc = "resolve"
        /\ invite_task'[u] # invite_task[u]
        /\ LocalJoined = {})
       => /\ invite_task'[u].pc = "done"
          /\ invite_task'[u].inviter = NoUser
          /\ issued' = issued
          /\ power_levels' = power_levels
          /\ member_state' = member_state]_vars

\* Alice, the sole local member, left; Bob knocked; the resolution ended
\* without an inviter while a remote user with power 100 is joined
C11_Witness ==
  /\ member_state["alice"].membership = "leave"
  /\ member_state["remo"].membership = "join"
  /\ LocalJoined = {}
  /\ member_state["bob"].membership = "knock"
  /\ invite_task["bob"].pc = "done"
  /\ invite_task["bob"].inviter = NoUser
  /\ issued = {}

\* A knock of u is delivered in this step.
KnockArrives(u) ==
  /\ member_state'[u] # member_state[u]
  /\ member_state'[u].membership = "knock"

\* C12: once a promotion or invite attempt has failed for the room, a
\* further knock does not start the inviter resolution (every run of the
\* model takes place within one cooldown window of 300 seconds: the
\* longest wait of the module is the 15 seconds of the join retries).
C12_CooldownSuppressesKnock ==
  [][\A u \in Users :
       ((\E v \in Users : invite_task[v].failed) /\ KnockArrives(u))
       => invite_task'[u].pc # "resolve"]_vars

\* C13: whatever the external interfaces do, no run of on_new_event ends
\* by raising.
C13_NoExceptionEscapes == \A u \in Users : ~join_task[u].raised

\* C14: request_auto_join answers 403 without authentication; an
\* authenticated request that is not rate limited (429) is answered 400 for
\* a bad body or room_id, 403 without a membership record, 400 when joined,
\* and otherwise 200 with the invite started; no other request starts one.
C14_RequestAutoJoinAnswers ==
  \A i \in 1..Len(http_responses) :
    LET r == http_responses[i] IN
      r.endpoint = "request_auto_join" =>
        /\ ~r.authed => r.status = 403
        /\ (r.authed /\ r.status # 429) =>
             r.status = CASE r.body # "room_id" -> 400
                          [] r.membership = NoMembership -> 403
                          [] r.membership = "join" -> 400
                          [] OTHER -> 200

\* C15: after the member with invite power left, a request of a user who
\* knocked is answered 200, however far the processes started by the knock
\* have come.
C15_KnockThenRequestJoins ==
  \A i \in 1..Len(http_responses) :
    LET r == http_responses[i] IN
      (/\ r.endpoint = "request_auto_join"
       /\ r.authed /\ r.body = "room_id"
       /\ r.knocked)
      => r.status = 200

\* C16: delete_room removes members or purges the room only for a joined
\* requester whose power is at least every power the users map lists; an
\* authenticated, not rate-limited request of anyone else is answered 400
\* and changes nothing; a joined requester with at least every listed power
\* (ties included) in a room that lists some user is not refused, and an
\* answer of 200 means the room was purged.
C16_DeleteOnlyByHighestMember ==
  \A i \in 1..Len(http_responses) :
    LET r == http_responses[i] IN
      r.endpoint = "delete_room" =>
        /\ (r.removed # {} \/ r.purged \/ r.status = 200) =>
             (r.authed /\ ~r.limited /\ r.joined /\ r.at_least_listed)
        /\ (r.authed /\ ~r.limited /\ ~(r.joined /\ r.at_least_listed)) =>
             (r.status = 400 /\ r.removed = {} /\ ~r.purged)
        /\ (/\ r.authed /\ ~r.limited /\ r.body = "room_id"
            /\ r.joined /\ r.at_least_listed /\ r.lists_users) =>
             (r.status \in {200, 500} /\ (r.status = 200 <=> r.purged))

\* Bob, tied with another listed user at the highest power, deleted the
\* room: Alice was removed and the room purged
C16_Witness ==
  /\ Len(http_responses) >= 1
  /\ http_responses[1].endpoint = "delete_room"
  /\ http_responses[1].user = "bob"
  /\ http_responses[1].tied
  /\ http_responses[1].status = 200
  /\ "alice" \in http_responses[1].removed
  /\ room_purged
  /\ member_state["alice"] = NoMemberEvent

\* The accepted calls of u, among its first n calls, made at a time in
\* [from, to].
AcceptedCalls(u, n, from, to) ==
  {j \in 1..n : /\ ~rate_calls[u][j].limited
                /\ rate_calls[u][j].time >= from
                /\ rate_calls[u][j].time <= to}

StatedStartIndex(since) ==
  IF since.t = "numstr" /\ since.n >= 0 THEN since.n ELSE 0

StatedLimit(limit_arg) == IF limit_arg <= 0 THEN 10 ELSE limit_arg

\* The position of a room among the ordered public course rooms, from 0.
RoomIndex(r) == Cardinality({q \in course_rooms : q < r})

\* The chunk is rooms[s : s+l] and next_batch is str(s+l) exactly when rooms
\* remain after the chunk.
ChunkAndNextAsStated(p) ==
  LET s == StatedStartIndex(p.since)
      l == StatedLimit(p.limit)
      chunk == p.response.chunk
  IN  /\ \A i, j \in 1..Len(chunk) : i < j => chunk[i] < chunk[j]
      /\ {chunk[i] : i \in 1..Len(chunk)} =
           {r \in course_rooms : RoomIndex(r) >= s /\ RoomIndex(r) < s + l}
      /\ p.response.next_batch =
           IF Cardinality(course_rooms) > s + l THEN JNumStr(s + l) ELSE JNull

\* The rooms of all pages requested so far, in the order returned.
RECURSIVE VisitedRooms(_)
VisitedRooms(pages) ==
  IF pages = <<>> THEN <<>>
  ELSE VisitedRooms(SubSeq(pages, 1, Len(pages) - 1)) \o pages[Len(pages)].response.chunk

\* Following next_batch from the first page visits the rooms in order,
\* each once, and all of them when next_batch runs out.
TraversalAsStated ==
  (course_pages # <<>> /\ course_pages[1].since = JNull) =>
    LET visited == VisitedRooms(course_pages) IN
      /\ \A i, j \in 1..Len(visited) : i < j => visited[i] < visited[j]
      /\ {visited[i] : i \in 1..Len(visited)} =
           {r \in course_rooms : RoomIndex(r) < Len(visited)}
      /\ course_pages[Len(course_pages)].response.next_batch = JNull =>
           Len(visited) = Cardinality(course_rooms)

\* C18 as stated: prev_batch is None when s = 0 and str(max(0, s-l))
\* otherwise, whatever the rooms.
C18_PaginationAsStated ==
  /\ TraversalAsStated
  /\ \A k \in 1..Len(course_pages) :
       LET p == course_pages[k]
           s == StatedStartIndex(p.since)
           l == StatedLimit(p.limit)
       IN  /\ ChunkAndNextAsStated(p)
           /\ p.response.prev_batch =
                IF s = 0 THEN JNull ELSE JNumStr(Max(0, s - l))

\* C18: for start index s (0 when since is absent, negative or not an
\* integer) and limit l (10 when l <= 0) the chunk is rooms[s : s+l] of the
\* ordered public course rooms, next_batch is str(s+l) exactly when rooms
\* remain after the chunk and None otherwise, prev_batch is None when s = 0
\* or when there is no public course room at all, and str(max(0, s-l))
\* otherwise; following next_batch from the first page visits every room
\* exactly once, in order.
C18_Pagination ==
  /\ TraversalAsStated
  /\ \A k \in 1..Len(course_pages) :
       LET p == course_pages[k]
           s == StatedStartIndex(p.since)
           l == StatedLimit(p.limit)
       IN  /\ ChunkAndNextAsStated(p)
           /\ p.response.prev_batch =
                IF s = 0 \/ course_rooms = {} THEN JNull
                ELSE JNumStr(Max(0, s - l))

\* A traversal of five rooms in pages of two, from the first page to the
\* page without next_batch.
C18_Witness ==
  /\ course_rooms = {1, 3, 4, 7, 9}
  /\ Len(course_pages) = 3
  /\ course_pages[1].since = JNull /\ course_pages[1].limit = 2
  /\ course_pages[1].response.prev_batch = JNull
  /\ course_pages[2].response.chunk = <<4, 7>>
  /\ course_pages[2].response.prev_batch = JNumStr(0)
  /\ course_pages[3].response.chunk = <<9>>
  /\ course_pages[3].response.next_batch = JNull
  /\ course_pages[3].response.prev_batch = JNumStr(2)

\* C19: when on_new_event runs for an invite of a local user and the state
\* query or the fetch of the superseded event raises, the resolver answers
\* false and no auto-join is started: the join tasks are left as they
\* were (none starts, none ends with an exception) and no join is issued.
C19_ResolverFailSafe ==
  [][\A u \in LocalUsers :
       (/\ member_state'[u] # member_state[u]
        /\ member_state'[u].membership = "invite"
        /\ knock_calls' # <<>>
        /\ knock_calls'[1].invitee = u
        /\ (knock_calls'[1].state_query = "raise" \/ knock_calls'[1].lookup = "raise"))
       => /\ ~knock_calls'[1].result
          /\ join_task' = join_task
          /\ \A e \in issued' \ issued : e.type # "join"]_vars

\* An invite that supersedes Carol's knock arrived, the fetch of the knock
\* raised, and Carol's auto-join did not start.
C19_Witness ==
  /\ member_state["carol"].membership = "invite"
  /\ member_state["carol"].replaces = "knock"
  /\ knock_calls # <<>>
  /\ knock_calls[1].invitee = "carol"
  /\ knock_calls[1].state_query = "ok"
  /\ knock_calls[1].lookup = "raise"
  /\ ~knock_calls[1].result
  /\ join_task["carol"].pc = "idle"

\* No step of this transition starts, advances or ends a background task.
TasksUntouched ==
  /\ join_task' = join_task
  /\ invite_task' = invite_task
  /\ leave_task' = leave_task

\* The tasks after on_new_event ran for the member event that is now u's:
\* nothing for a join or an invite of a remote user; for an invite of a
\* local user the knock history resolver and at most that user's join task;
\* for a knock the knocker's auto-invite task; for a leave or ban the
\* ensure-inviter task.
RoutedToOneFlow(u) ==
  LET ev == member_state'[u] IN
  CASE ev.membership = "join" -> TasksUntouched
    [] ev.membership = "invite" /\ ~is_mine(u) -> TasksUntouched
    [] ev.membership = "invite" /\ is_mine(u) ->
         /\ invite_task' = invite_task
         /\ leave_task' = leave_task
         /\ Len(knock_calls') = 1
         /\ knock_calls'[1].invitee = u
         /\ join_task' = IF knock_calls'[1].result
                           THEN [join_task EXCEPT ![u] = StartJoinTask(ev)]
                           ELSE join_task
    [] ev.membership = "knock" ->
         /\ join_task' = join_task
         /\ leave_task' = leave_task
         /\ invite_task' = [invite_task EXCEPT ![u] =
                              [IdleInviteTask EXCEPT !.pc = "resolve"]]
    [] ev.membership \in {"leave", "ban"} ->
         /\ join_task' = join_task
         /\ invite_task' = invite_task
         /\ leave_task' = [IdleLeaveTask EXCEPT !.pc = "join_rules"]

\* u's member event repeats the one it replaced, so that a further event of
\* the same kind leaves the member state as it is.
RepeatsItself(u) ==
  /\ member_state[u].membership \in Memberships
  /\ member_state[u].replaces = member_state[u].membership

\* C28: on_new_event as a classifier.  The run for an external event issues
\* no state event and writes no account data itself; it starts nothing for
\* an event that is not a member state event, for a join and for an invite
\* of a remote user; an invite of a local user reaches only the auto-accept
\* flow, a knock starts only the auto-invite task of the knocker, a leave
\* or ban starts only the ensure-inviter task.
C28_MembershipClassifier ==
  [][ext_events' # ext_events =>
       /\ issued' = issued
       /\ m_direct' = m_direct
       /\ power_levels' = power_levels
       /\ \A u \in Users : member_state'[u] # member_state[u] => RoutedToOneFlow(u)
       /\ member_state' = member_state =>
            \/ TasksUntouched
            \/ \E u \in Users : RepeatsItself(u) /\ RoutedToOneFlow(u)]_vars

\* Two external events reached on_new_event: Carol's knock, which started
\* her auto-invite task and nothing else, and an event that is not a member
\* state event (no other member event of the room was replaced).
C28_Witness ==
  /\ ext_events = 2
  /\ member_state["carol"].membership = "knock"
  /\ \A u \in Users \ {"carol"} :
       member_state[u].membership \in {NoMembership, "join"}
         /\ member_state[u].replaces = NoMembership
  /\ invite_task["carol"].pc = "resolve"
  /\ \A u \in Users \ {"carol"} : invite_task[u] = IdleInviteTask
  /\ join_task = [u \in Users |-> IdleJoinTask]
  /\ leave_task = IdleLeaveTask
  /\ issued = {}

\* PangeaChatConfig.auto_invite_knocker_enabled: parse_config never sets it,
\* so it has its default.
auto_invite_knocker_enabled == FALSE

\* C29: with the knock-auto-invite switch off, a knock starts no
\* auto-invite task: no inviter resolution, promotion or invite follows
\* from it.
C29_KnockInertWhenSwitchOff ==
  [][~auto_invite_knocker_enabled =>
       \A u \in Users :
         (member_state'[u] # member_state[u] /\ member_state'[u].membership = "knock")
           => invite_task'[u] = invite_task[u]]_vars

\* C21: when _ensure_inviter_on_leave runs in a room whose join rule is
\* neither restricted nor knock_restricted (a room without join-rules event
\* included) it ends without resolving an inviter and changes nothing: no
\* power-levels update, no invite, no change of room state; and in every
\* room no run of it ends with an exception.
C21_LeaveOutsideRestrictedRoomsIsInert ==
  [][/\ ~leave_task'.raised
     /\ (/\ leave_task.pc = "join_rules"
         /\ leave_task' # leave_task
         /\ join_rule \notin {"restricted", "knock_restricted"})
        => /\ leave_task'.pc = "done"
           /\ ~leave_task'.resolved
           /\ leave_task'.inviter = NoUser
           /\ issued' = issued
           /\ power_levels' = power_levels
           /\ member_state' = member_state
           /\ invite_task' = invite_task
           /\ join_task' = join_task
           /\ m_direct' = m_direct]_vars

\* Alice left a room without join-rules event, the task ran to its end
\* and Bob is still below the invite power.
C21_Witness ==
  /\ join_rule = "absent"
  /\ member_state["alice"].membership = "leave"
  /\ leave_task.pc = "done"
  /\ ~leave_task.resolved
  /\ ~leave_task.raised
  /\ issued = {}
  /\ PowerOf(power_levels, "bob") < InvitePowerOf(power_levels)

\* The power-levels events issued so far.
PowerLevelsIssued(evs) == {e \in evs : e.type = "power_levels"}

InviteTaskRank(pc) ==
  CASE pc = "idle" -> 0 [] pc = "resolve" -> 1 [] pc = "promote" -> 2
    [] pc = "invite" -> 3 [] pc = "done" -> 4

LeaveTaskRank(pc) ==
  CASE pc = "idle" -> 0 [] pc = "join_rules" -> 1 [] pc = "get_inviter" -> 2
    [] pc = "done" -> 3

Running(pc) == pc \notin {"idle", "done"}

NoTaskRunning ==
  /\ \A u \in Users : ~Running(join_task[u].pc) /\ ~Running(invite_task[u].pc)
  /\ ~Running(leave_task.pc)

\* A step of the module, the events it issues fed back into on_new_event:
\* no auto-invite or ensure-inviter run starts and every run only moves
\* forward; a join run starts only with the invite its user's own
\* auto-invite run sends, and otherwise makes one more attempt, up to
\* MaxRetries, or tags the room; at most one event is issued, a
\* power-levels event only by the promotion step of a run, an invite only
\* by its invite step, a join only by an attempt of the target's join run.
CascadeStep ==
  /\ \A u \in Users :
       /\ invite_task'[u] # invite_task[u] =>
            /\ Running(invite_task[u].pc)
            /\ InviteTaskRank(invite_task'[u].pc) > InviteTaskRank(invite_task[u].pc)
       /\ join_task'[u] # join_task[u] =>
            \/ /\ invite_task[u].pc = "invite"
               /\ invite_task'[u].pc = "done"
               /\ join_task'[u].pc = "attempt"
               /\ join_task'[u].attempts = 0
            \/ /\ join_task[u].pc = "attempt"
               /\ join_task'[u].attempts = join_task[u].attempts + 1
               /\ join_task'[u].attempts <= MaxRetries
            \/ /\ join_task[u].pc = "mark_dm"
               /\ join_task'[u].pc = "done"
  /\ leave_task' # leave_task =>
       /\ Running(leave_task.pc)
       /\ LeaveTaskRank(leave_task'.pc) > LeaveTaskRank(leave_task.pc)
  /\ Cardinality(issued' \ issued) <= 1
  /\ \A e \in issued' \ issued :
       CASE e.type = "power_levels" ->
              \E u \in Users : invite_task[u].pc = "promote" /\ invite_task'[u].pc # "promote"
         [] e.type = "invite" ->
              invite_task[e.target].pc = "invite" /\ invite_task'[e.target].pc = "done"
         [] e.type = "join" ->
              /\ join_task[e.target].pc = "attempt"
              /\ join_task'[e.target].attempts = join_task[e.target].attempts + 1

InvitesIssued(evs) == {e \in evs : e.type = "invite"}

\* C30: the reaction cascade is finite.  Fed back into on_new_event, the
\* events the module issues start nothing but the one join run that
\* answers the module's own invite; every run moves forward only, a join
\* run through at most MaxRetries attempts; there are never more
\* promotions, invites or join runs than external events (one of each at
\* most after a single external event); and the module comes to rest
\* again and again.
C30_ReactionCascadeFinite ==
  /\ [][ext_events' = ext_events => CascadeStep]_vars
  /\ [](/\ \A u \in Users : join_task[u].attempts <= MaxRetries
        /\ Cardinality(PowerLevelsIssued(issued)) <= ext_events
        /\ Cardinality(InvitesIssued(issued)) <= ext_events
        /\ Cardinality({u \in Users : join_task[u].pc # "idle"}) <= ext_events)
  /\ []<>NoTaskRunning

\* After Alice's leave and Carol's knock: one promotion, one invite, and
\* Carol's join run gave up after its fifth attempt; nothing runs any more.
C30_Witness ==
  /\ ext_events = 2
  /\ member_state["alice"].membership = "leave"
  /\ member_state["carol"].membership = "invite"
  /\ NoTaskRunning
  /\ Cardinality(PowerLevelsIssued(issued)) = 1
  /\ Cardinality(InvitesIssued(issued)) = 1
  /\ join_task["carol"].pc = "done"
  /\ join_task["carol"].attempts = MaxRetries
  /\ ~join_task["carol"].join_event

C24_DmTagOnlyAfterSuccessfulDirectJoin ==
  [][\A u \in Users :
       m_direct'[u] # m_direct[u] =>
         /\ join_task[u].is_direct
         /\ join_task[u].join_event]_vars

\* C10: once _ensure_inviter_on_leave has run in a (knock_)restricted room
\* where local joined members remain, one of them has power >= the invite
\* power, and the module has issued no invite.
C10_PromotesOnLeave ==
  (/\ leave_task.pc = "done"
   /\ leave_task.resolved
   /\ join_rule \in RestrictedJoinRules
   /\ LocalJoined # {}
   /\ \A u \in Users : invite_task[u].pc = "idle")
  => /\ \E u \in LocalJoined : EffectivePower(u) >= StatedInvitePower
     /\ \A r \in issued : r.type # "invite"

====
